---- MODULE Spec2Model ----
(***************************************************************************)
(* A model of ecole's solver handle (libecole/src/scip/model.cpp) and of   *)
(* the NodeBipartite observation function                                  *)
(* (libecole/include/ecole/observation/node-bipartite.hpp).                *)
(*                                                                         *)
(* SCIP instances live in a pool of MaxInst slots; a Model object is a     *)
(* handle slot holding the id of the instance it owns (0 is the null       *)
(* unique_ptr).  Threads run Model::operator= / copy() step by step, so    *)
(* that the static mutex of copy() is visible.                             *)
(***************************************************************************)
EXTENDS Integers, Sequences, FiniteSets, TLC

(* ------------------------------ bounds -------------------------------- *)
NumThreads == 2
NumHandles == 2
MaxInst == 3
NumProbs == 1
MaxRows == 2
MaxTick == 1
MaxEpisode == 1
\* width of param_t<ParamType::Int> (int) in the model
IntBits == 3

Threads == 1..NumThreads
Handles == 1..NumHandles
Inst == 1..MaxInst
Probs == 1..NumProbs

RECURSIVE Pow2(_)
Pow2(n) == IF n = 0 THEN 1 ELSE 2 * Pow2(n - 1)
INT_MAX == Pow2(IntBits - 1) - 1
INT_MIN == -Pow2(IntBits - 1)
IntRange == INT_MIN..INT_MAX

(* --------------------------- parameters ------------------------------- *)
\* enum ParamType, as returned by the switch of Model::get_param_type
ParamTypes == {"Bool", "Int", "LongInt", "Real", "Char", "String"}

SeedParam == "randomization/randomseedshift"
PresolParam == "presolving/maxrounds"
SepaParam == "separating/maxrounds"

\* The solver's parameter table: name -> declared type tag
ParamDecl ==
  [n \in {SeedParam, PresolParam, SepaParam, "misc/catchctrlc", "limits/nodes",
          "limits/time", "branching/scorefunc", "visual/vbcfilename"} |->
     CASE n = "misc/catchctrlc" -> "Bool"
       [] n = "limits/nodes" -> "LongInt"
       [] n = "limits/time" -> "Real"
       [] n = "branching/scorefunc" -> "Char"
       [] n = "visual/vbcfilename" -> "String"
       [] OTHER -> "Int"]
ParamNames == DOMAIN ParamDecl

\* A typed value: t is the C++ type's tag, v an integer (Bool: 0/1, Char: a
\* character code, Real: a scaled number) or, for String, a sequence of
\* character codes.
Val(t, v) == [t |-> t, v |-> v]
ValEq(a, b) == a.t = b.t /\ a.v = b.v

DefaultParams ==
  [n \in ParamNames |->
     CASE n = "misc/catchctrlc" -> Val("Bool", 1)
       [] n = "limits/nodes" -> Val("LongInt", -1)
       [] n = "limits/time" -> Val("Real", 1)
       [] n = "branching/scorefunc" -> Val("Char", 1)
       [] n = "visual/vbcfilename" -> Val("String", <<>>)
       [] n = SeedParam -> Val("Int", 0)
       [] OTHER -> Val("Int", -1)]

(* ---------------------------- instances ------------------------------- *)
Stages == {"INIT", "PROBLEM", "PRESOLVING", "SOLVING", "SOLVED"}

\* variables view / initial relaxation rows of problem p
ProbVars(p) == [j \in 1..(p + 1) |-> j]
ProbRows(p) == [i \in 1..p |-> i]

FreeInst ==
  [alive |-> FALSE, stage |-> "INIT", plugins |-> FALSE, quiet |-> FALSE,
   params |-> DefaultParams, prob |-> 0, vars |-> <<>>, rows |-> <<>>,
   tick |-> 0]

VARIABLES
  handle,    \* Model::scip of every Model object: an instance id, 0 = nullptr
  inst,      \* the SCIP instances
  lock,      \* the static std::mutex m of copy(): its owner, 0 = free
  pc,        \* where each thread is in Model::operator= / copy()
  loc,       \* the locals of each thread's call: other, this, dest
  ret,       \* what the last completed call returned or threw
  aborted,   \* std::terminate was called
  ext,       \* the NodeBipartite object: use_cache, cache_computed, the_cache
  episode,   \* number of before_reset calls so far
  hist       \* the previous observation of the episode and its structure

vars == <<handle, inst, lock, pc, loc, ret, aborted, ext, episode, hist>>
modelVars == <<handle, inst, lock, pc, loc>>
extVars == <<ext, episode, hist>>

NoLoc == [src |-> 0, dst |-> 0, dest |-> 0, ok |-> TRUE]
NoObs == [none |-> TRUE]

\* A constructor that marks the empty cache as computed
NodeBipartite_computed(cache) ==
  [use_cache |-> cache, cache_computed |-> TRUE, the_cache |-> NoObs]

\* NodeBipartite(bool cache = false)
NodeBipartite(cache) ==
  [use_cache |-> cache, cache_computed |-> FALSE, the_cache |-> NoObs]

\* create(): SCIPcreate, then the message handler is set quiet
create == [FreeInst EXCEPT !.alive = TRUE, !.quiet = TRUE]

\* Model::Model(): create() followed by SCIPincludeDefaultPlugins
DefaultModel == [create EXCEPT !.plugins = TRUE]

\* Deleter<SCIP>::operator(): SCIPfree
Free(I, i) == IF i = 0 THEN I ELSE [I EXCEPT ![i] = FreeInst]

HasFree(I) == \E i \in Inst : ~I[i].alive
NewId(I) == CHOOSE i \in Inst : ~I[i].alive /\ \A j \in 1..(i - 1) : I[j].alive

\* A Model object some thread's unfinished call reads (other) or writes (this)
SrcBusy(h) == \E t \in Threads : pc[t] # "idle" /\ loc[t].src = h
DstBusy(h) == \E t \in Threads : pc[t] # "idle" /\ loc[t].dst = h
\* Exclusive access: mutating operations run on a Model no other call uses
Exclusive(h) == handle[h] # 0 /\ ~SrcBusy(h) /\ ~DstBusy(h)

Init ==
  /\ handle = [h \in Handles |-> h]
  /\ inst = [i \in Inst |-> IF i \in Handles THEN DefaultModel ELSE FreeInst]
  /\ lock = 0
  /\ pc = [t \in Threads |-> "idle"]
  /\ loc = [t \in Threads |-> NoLoc]
  /\ ret = [op |-> "none", err |-> ""]
  /\ aborted = FALSE
  /\ ext = NodeBipartite(FALSE)
  /\ episode = 0
  /\ hist = NoObs

(* ------------------- Model: construction and lifetime ----------------- *)
\* h = Model{}: a fresh default Model is built, then move-assigned; the
\* instance h owned is freed.  SCIPcreate fails when no memory is left.
ModelCtor(h) ==
  /\ ~SrcBusy(h) /\ ~DstBusy(h)
  /\ IF HasFree(inst)
       THEN LET n == NewId(inst) IN
            /\ inst' = Free([inst EXCEPT ![n] = DefaultModel], handle[h])
            /\ handle' = [handle EXCEPT ![h] = n]
            /\ ret' = [op |-> "Model", err |-> ""]
       ELSE /\ ret' = [op |-> "Model", err |-> "InitializationFailure"]
            /\ UNCHANGED <<handle, inst>>
  /\ UNCHANGED <<lock, pc, loc, aborted, extVars>>

\* Model m = std::move(h): h is left holding nullptr; the temporary owning
\* the instance dies and the Deleter frees it.
MoveOut(h) ==
  /\ Exclusive(h)
  /\ inst' = Free(inst, handle[h])
  /\ handle' = [handle EXCEPT ![h] = 0]
  /\ ret' = [op |-> "move", err |-> ""]
  /\ UNCHANGED <<lock, pc, loc, aborted, extVars>>

\* Model::read_prob: SCIPreadProb needs a reader plugin and a readable file;
\* it replaces the problem and leaves the instance in the problem stage.
ReadProb(h, p, readable) ==
  /\ Exclusive(h)
  /\ LET i == handle[h] IN
     IF inst[i].plugins /\ readable
       THEN /\ inst' = [inst EXCEPT ![i] =
                         [@ EXCEPT !.stage = "PROBLEM", !.prob = p,
                                   !.vars = ProbVars(p), !.rows = <<>>,
                                   !.tick = 0]]
            /\ ret' = [op |-> "read_prob", err |-> ""]
       ELSE /\ ret' = [op |-> "read_prob", err |-> "FileError"]
            /\ UNCHANGED inst
  /\ UNCHANGED <<handle, lock, pc, loc, aborted, extVars>>

\* Model::solve as seen from the callbacks SCIPsolve runs: the instance goes
\* through presolving and solving and ends solved.
NextStage(s) ==
  CASE s = "PROBLEM" -> "PRESOLVING"
    [] s = "PRESOLVING" -> "SOLVING"
    [] OTHER -> "SOLVED"

solve(h) ==
  /\ Exclusive(h)
  /\ LET i == handle[h]
         s == NextStage(inst[i].stage) IN
     /\ inst[i].stage \in {"PROBLEM", "PRESOLVING", "SOLVING"}
     /\ inst' = [inst EXCEPT ![i] =
                  [@ EXCEPT !.stage = s,
                            !.rows = IF s = "SOLVING" THEN ProbRows(inst[i].prob)
                                     ELSE <<>>,
                            !.tick = 0]]
     /\ ret' = [op |-> "solve", err |-> ""]
  /\ UNCHANGED <<handle, lock, pc, loc, aborted, extVars>>

(* ------------------------- Model: copying ----------------------------- *)
\* A clone that carries the problem over and leaves the settings behind
SCIPcopy_problem_only(source, dest) ==
  [dest EXCEPT !.stage = "PROBLEM", !.plugins = source.plugins,
               !.prob = source.prob, !.vars = source.vars]

\* The instance SCIPcopy(source, dest, NULL, NULL, "", TRUE, FALSE, FALSE,
\* NULL) leaves in dest: the source's plugins, parameter settings and
\* problem, in the problem stage; dest keeps its own message handler.
SCIPcopy(source, dest) ==
  [dest EXCEPT !.stage = "PROBLEM", !.plugins = source.plugins,
               !.params = source.params, !.prob = source.prob,
               !.vars = source.vars]

\* A copy() that takes no notice of the mutex being owned
lock_guard_unchecked(t) == lock' = t

\* std::lock_guard<std::mutex> g{m}: returns once the mutex is owned
lock_guard(t) == lock = 0 /\ lock' = t

\* An unlock written after the call of SCIPcopy, which a throw skips
unlock_after_call(t) == lock' = IF loc[t].ok THEN 0 ELSE lock

\* ~lock_guard, run when copy() returns and when it unwinds
unlock_guard(t) == lock' = 0

\* Model::operator==: the two unique_ptr hold the same instance
ModelEq(a, b) == a = b

\* What a finished copy() hands to its caller: the copy (res, holding out)
\* of the source instance from (holding src), stored in this
CopyRet(this, from, src, res, out, locked, err) ==
  [op |-> "copy", err |-> err, dst |-> this, null |-> (from = 0), src |-> src,
   res |-> res, out |-> out, locked |-> locked, eq |-> ModelEq(res, from)]

\* The destination of a copy: a Model object (operator=), or 0 for the
\* temporary that Model(Model const&) builds and that dies with its full
\* expression.
Owned(this) == IF this = 0 THEN 0 ELSE handle[this]
\* this->scip = n: the instance owned before is freed; a temporary is freed
Assigned(I, this, n) == IF this = 0 THEN Free(I, n) ELSE Free(I, handle[this])
Holder(this, n) == IF this = 0 THEN handle ELSE [handle EXCEPT ![this] = n]

\* A copy of other into this, up to the point where copy() either has
\* returned (null or uninitialized source, or create() failed) or waits for
\* the mutex with dest created.
CopyCall(t, this, other) ==
  /\ pc[t] = "idle"
  /\ ~DstBusy(other)
  /\ LET s == handle[other] IN
     IF s = 0
       THEN /\ inst' = Assigned(inst, this, 0)
            /\ handle' = Holder(this, 0)
            /\ ret' = CopyRet(this, 0, FreeInst, 0, FreeInst, FALSE, "")
            /\ UNCHANGED <<pc, loc>>
       ELSE IF ~HasFree(inst)
       THEN /\ ret' = CopyRet(this, s, inst[s], 0, FreeInst, FALSE,
                              "InitializationFailure")
            /\ UNCHANGED <<handle, inst, pc, loc>>
       ELSE LET n == NewId(inst) IN
            IF inst[s].stage = "INIT"
              THEN /\ inst' = Assigned([inst EXCEPT ![n] = create], this, n)
                   /\ handle' = Holder(this, n)
                   /\ ret' = CopyRet(this, s, inst[s], n, create, FALSE, "")
                   /\ UNCHANGED <<pc, loc>>
              ELSE /\ inst' = [inst EXCEPT ![n] = create]
                   /\ pc' = [pc EXCEPT ![t] = "lock"]
                   /\ loc' = [loc EXCEPT ![t] =
                                [src |-> other, dst |-> this, dest |-> n,
                                 ok |-> TRUE]]
                   /\ UNCHANGED <<handle, ret>>
  /\ UNCHANGED <<lock, aborted, extVars>>

\* Model::operator=(other) on this, with &other != this
CopyAssign(t, this, other) ==
  /\ this # other
  /\ ~SrcBusy(this) /\ ~DstBusy(this)
  /\ CopyCall(t, this, other)

\* Model::Model(Model const& other), building a temporary
CopyConstruct(t, other) == CopyCall(t, 0, other)

\* Model::operator=(other) with &other == this: nothing is done
SelfAssign(t, this) ==
  /\ pc[t] = "idle"
  /\ ~DstBusy(this)
  /\ ret' = [op |-> "assign_self", err |-> ""]
  /\ UNCHANGED <<modelVars, aborted, extVars>>

\* The thread gets the mutex and enters SCIPcopy
Acquire(t) ==
  /\ pc[t] = "lock"
  /\ lock_guard(t)
  /\ pc' = [pc EXCEPT ![t] = "clone"]
  /\ UNCHANGED <<handle, inst, loc, ret, aborted, extVars>>

\* SCIPcopy runs to its end: it fills dest, or fails and scip::call throws
Clone(t, ok) ==
  /\ pc[t] = "clone"
  /\ LET d == loc[t].dest
         s == handle[loc[t].src] IN
     inst' = IF ok THEN [inst EXCEPT ![d] = SCIPcopy(inst[s], inst[d])]
             ELSE inst
  /\ loc' = [loc EXCEPT ![t].ok = ok]
  /\ pc' = [pc EXCEPT ![t] = "unlock"]
  /\ UNCHANGED <<handle, lock, ret, aborted, extVars>>

\* copy() is left: g is destroyed, then either dest is returned and taken
\* by the destination (whose old instance is freed), or the exception
\* leaves the caller with dest destroyed and the destination as it was.
Return(t) ==
  /\ pc[t] = "unlock"
  /\ unlock_guard(t)
  /\ LET d == loc[t].dest
         this == loc[t].dst
         s == handle[loc[t].src] IN
     IF loc[t].ok
       THEN /\ inst' = Assigned(inst, this, d)
            /\ handle' = Holder(this, d)
            /\ ret' = CopyRet(this, s, inst[s], d, inst[d], TRUE, "")
       ELSE /\ inst' = Free(inst, d)
            /\ handle' = handle
            /\ ret' = CopyRet(this, s, inst[s], 0, FreeInst, TRUE,
                           "ScipError")
  /\ pc' = [pc EXCEPT ![t] = "idle"]
  /\ loc' = [loc EXCEPT ![t] = NoLoc]
  /\ UNCHANGED <<aborted, extVars>>

(* ------------------------ Model: parameters --------------------------- *)
Ok(v) == [err |-> "", val |-> v]
Err(e) == [err |-> e, val |-> Val("Bool", 0)]

\* Model::get_param_type: SCIPgetParam yields no parameter for an unknown
\* name; otherwise the declared type is mapped onto ParamType.
get_param_type(name) ==
  IF name \notin ParamNames THEN Err("UnknownParameter")
  ELSE Ok(ParamDecl[name])

\* A conversion that takes the first character without looking at the
\* length (the terminator of an empty string)
Cast_SFINAE_char_unchecked(val) ==
  Ok(Val("Char", IF Len(val) = 0 THEN 0 ELSE val[1]))

\* internal::Cast_SFINAE<char, const char*>::operator char
Cast_SFINAE_char(val) ==
  IF Len(val) = 1 THEN Ok(Val("Char", val[1]))
  ELSE Err("TypeMismatch")

\* The conversion of a value to the type To that get_param / set_param ask
\* for: the same type passes, a string may become a char, anything else is
\* a type mismatch.
Cast(To, val) ==
  IF val.t = To THEN Ok(val)
  ELSE IF To = "Char" /\ val.t = "String" THEN Cast_SFINAE_char(val.v)
  ELSE Err("TypeMismatch")

\* The values SCIP accepts for an Int parameter
IntParamRange(name) == IF name = SeedParam THEN 0..INT_MAX ELSE (-1)..INT_MAX

\* internal::set_scip_param: SCIPset<T>Param through scip::call, which
\* throws when SCIP refuses the value
set_scip_param(params, name, val) ==
  IF val.t = "Int" /\ val.v \notin IntParamRange(name)
    THEN [err |-> "ScipError", params |-> params]
    ELSE [err |-> "", params |-> [params EXCEPT ![name] = val]]

\* internal::get_scip_param: SCIPget<T>Param through scip::call
get_scip_param(params, name) == params[name]

\* Model::set_param(name, value)
set_param(h, name, val) ==
  /\ Exclusive(h)
  /\ LET i == handle[h]
         ty == get_param_type(name)
         c == IF ty.err = "" THEN Cast(ty.val, val) ELSE Err(ty.err)
         r == IF c.err = "" THEN set_scip_param(inst[i].params, name, c.val)
              ELSE [err |-> c.err, params |-> inst[i].params] IN
     /\ inst' = [inst EXCEPT ![i].params = r.params]
     /\ ret' = [op |-> "set_param", err |-> r.err, h |-> h, name |-> name,
                arg |-> val]
  /\ UNCHANGED <<handle, lock, pc, loc, aborted, extVars>>

\* Model::get_param<T>(name)
get_param(h, name, T) ==
  /\ Exclusive(h)
  /\ LET i == handle[h]
         ty == get_param_type(name)
         c == IF ty.err = "" THEN Cast(T, get_scip_param(inst[i].params, name))
              ELSE Err(ty.err) IN
     ret' = [op |-> "get_param", err |-> c.err, h |-> h, name |-> name,
             T |-> T, val |-> c.val]
  /\ UNCHANGED <<modelVars, aborted, extVars>>

\* std::abs(int): the magnitude; of the most negative int it is undefined
\* behaviour, so any int may come out
std_abs(v) ==
  IF v = INT_MIN THEN IntRange ELSE {IF v < 0 THEN -v ELSE v}

\* Model::seed(seed_v)
seed_set(h, seed_v) ==
  /\ Exclusive(h)
  /\ \E a \in std_abs(seed_v) :
       LET i == handle[h]
           r == set_scip_param(inst[i].params, SeedParam, Val("Int", a)) IN
       /\ inst' = [inst EXCEPT ![i].params = r.params]
       /\ ret' = [op |-> "seed", err |-> r.err, h |-> h, arg |-> seed_v,
                  stored |-> r.params[SeedParam].v]
  /\ UNCHANGED <<handle, lock, pc, loc, aborted, extVars>>

\* Model::seed()
seed_get(h) ==
  /\ Exclusive(h)
  /\ ret' = [op |-> "seed_get", err |-> "", h |-> h,
             val |-> get_scip_param(inst[handle[h]].params, SeedParam).v]
  /\ UNCHANGED <<modelVars, aborted, extVars>>

\* Model::disable_presolve: SCIPsetPresolving(SCIP_PARAMSETTING_OFF)
disable_presolve(h) ==
  /\ Exclusive(h)
  /\ inst' = [inst EXCEPT ![handle[h]].params[PresolParam] = Val("Int", 0)]
  /\ ret' = [op |-> "disable_presolve", err |-> ""]
  /\ UNCHANGED <<handle, lock, pc, loc, aborted, extVars>>

\* Model::disable_cuts: SCIPsetSeparating(SCIP_PARAMSETTING_OFF)
disable_cuts(h) ==
  /\ Exclusive(h)
  /\ inst' = [inst EXCEPT ![handle[h]].params[SepaParam] = Val("Int", 0)]
  /\ ret' = [op |-> "disable_cuts", err |-> ""]
  /\ UNCHANGED <<handle, lock, pc, loc, aborted, extVars>>

(* --------------------------- Model: views ----------------------------- *)
\* SCIPgetNVars / SCIPgetNLPCols / SCIPgetNLPRows of an instance
SCIPgetNVars(rec) == Len(rec.vars)
SCIPgetNLPCols(rec) == Len(rec.vars)
SCIPgetNLPRows(rec) == Len(rec.rows)

\* A test that lets every stage from presolving on through
NotSolving_before_presolve(rec) == rec.stage \in {"INIT", "PROBLEM"}

\* The test that makes lp_columns / lp_rows throw
NotSolving(rec) == rec.stage # "SOLVING"

\* Model::variables
variables(h) ==
  /\ Exclusive(h)
  /\ ret' = [op |-> "variables", err |-> "", h |-> h,
             len |-> SCIPgetNVars(inst[handle[h]])]
  /\ UNCHANGED <<modelVars, aborted, extVars>>

\* Model::lp_branch_cands: noexcept, so an error of SCIPgetLPBranchCands
\* (no solved relaxation outside solving) thrown by scip::call ends the
\* process; during solving some of the variables are candidates.
lp_branch_cands(h) ==
  /\ Exclusive(h)
  /\ LET rec == inst[handle[h]] IN
     IF rec.stage = "SOLVING"
       THEN /\ \E n \in 0..Len(rec.vars) :
                 ret' = [op |-> "lp_branch_cands", err |-> "", h |-> h,
                         len |-> n]
            /\ UNCHANGED aborted
       ELSE /\ ret' = [op |-> "lp_branch_cands", err |-> "terminate", h |-> h,
                       len |-> 0]
            /\ aborted' = TRUE
  /\ UNCHANGED <<modelVars, extVars>>

\* Model::lp_columns
lp_columns(h) ==
  /\ Exclusive(h)
  /\ LET rec == inst[handle[h]] IN
     ret' = IF NotSolving(rec)
              THEN [op |-> "lp_columns", err |-> "StageViolation", h |-> h,
                    len |-> 0]
              ELSE [op |-> "lp_columns", err |-> "", h |-> h,
                    len |-> SCIPgetNLPCols(rec)]
  /\ UNCHANGED <<modelVars, aborted, extVars>>

\* Model::lp_rows
lp_rows(h) ==
  /\ Exclusive(h)
  /\ LET rec == inst[handle[h]] IN
     ret' = IF NotSolving(rec)
              THEN [op |-> "lp_rows", err |-> "StageViolation", h |-> h,
                    len |-> 0]
              ELSE [op |-> "lp_rows", err |-> "", h |-> h,
                    len |-> SCIPgetNLPRows(rec)]
  /\ UNCHANGED <<modelVars, aborted, extVars>>

(* ------------- the solver at work inside Model::solve ----------------- *)
\* A cut enters the relaxation
AddRow(h) ==
  /\ Exclusive(h)
  /\ LET i == handle[h] IN
     /\ inst[i].stage = "SOLVING"
     /\ Len(inst[i].rows) < MaxRows
     /\ \E r \in 1..MaxRows :
          /\ \A k \in 1..Len(inst[i].rows) : inst[i].rows[k] # r
          /\ inst' = [inst EXCEPT ![i].rows = Append(@, r)]
  /\ ret' = [op |-> "solving", err |-> ""]
  /\ UNCHANGED <<handle, lock, pc, loc, aborted, extVars>>

\* An aged row leaves the relaxation
DropRow(h) ==
  /\ Exclusive(h)
  /\ LET i == handle[h] IN
     /\ inst[i].stage = "SOLVING"
     /\ Len(inst[i].rows) > 0
     /\ inst' = [inst EXCEPT ![i].rows = Tail(@)]
  /\ ret' = [op |-> "solving", err |-> ""]
  /\ UNCHANGED <<handle, lock, pc, loc, aborted, extVars>>

\* Further presolving reorders the variables
PermuteVars(h) ==
  /\ Exclusive(h)
  /\ LET i == handle[h]
         v == inst[i].vars IN
     /\ inst[i].stage = "SOLVING"
     /\ Len(v) >= 2
     /\ inst' = [inst EXCEPT ![i].vars =
                  <<v[2], v[1]>> \o SubSeq(v, 3, Len(v))]
  /\ ret' = [op |-> "solving", err |-> ""]
  /\ UNCHANGED <<handle, lock, pc, loc, aborted, extVars>>

\* The relaxation is solved again: solution values, ages, basis change
Tick(h) ==
  /\ Exclusive(h)
  /\ LET i == handle[h] IN
     /\ inst[i].stage = "SOLVING"
     /\ inst[i].tick < MaxTick
     /\ inst' = [inst EXCEPT ![i].tick = @ + 1]
  /\ ret' = [op |-> "solving", err |-> ""]
  /\ UNCHANGED <<handle, lock, pc, loc, aborted, extVars>>

(* ------------------------ NodeBipartite ------------------------------- *)
n_static_variable_features == 5
n_dynamic_variable_features == 15
n_variable_features == n_static_variable_features + n_dynamic_variable_features
n_static_row_features == 2
n_dynamic_row_features == 3
n_row_features == n_static_row_features + n_dynamic_row_features

\* The problem's data: objective coefficient and type of a variable, bias
\* of a row, coefficient of a variable in a row (0: no edge)
Objective(p, v) == p * v
VarType(p, v) == ((p + v) % 4) + 1
Bias(p, r) == p + r
Coef(p, r, v) == IF (r + v) % 2 = 0 THEN p + r + v ELSE 0

\* VariableFeatures: objective, then the one-hot type flags
VarStatic(p, v) ==
  [c \in 1..n_static_variable_features |->
     IF c = 1 THEN Objective(p, v)
     ELSE IF c = 1 + VarType(p, v) THEN 1 ELSE 0]

\* VariableFeatures: the dynamic block, with solution_value and index
VarDynamic(rec, v) ==
  [c \in 1..n_dynamic_variable_features |->
     IF c = 4 THEN rec.tick + v
     ELSE IF c = n_dynamic_variable_features THEN v ELSE 0]

\* RowFeatures: bias, objective_cosine_similarity
RowStatic(p, r) ==
  [c \in 1..n_static_row_features |-> IF c = 1 THEN Bias(p, r) ELSE r]

\* RowFeatures: is_tight, dual_solution_value, scaled_age
RowDynamic(rec, r) ==
  [c \in 1..n_dynamic_row_features |->
     IF c = 1 THEN rec.tick % 2 ELSE IF c = 2 THEN rec.tick + r ELSE 0]

\* The full observation of an instance in the solving stage, computed in
\* episode ep
ExtractFully(rec, ep) ==
  LET n == Len(rec.vars)
      m == Len(rec.rows)
      E == {e \in (1..m) \X (1..n) :
              Coef(rec.prob, rec.rows[e[1]], rec.vars[e[2]]) # 0} IN
  [none |-> FALSE, epoch |-> ep,
   vstat |-> [j \in 1..n |-> VarStatic(rec.prob, rec.vars[j])],
   vdyn |-> [j \in 1..n |-> VarDynamic(rec, rec.vars[j])],
   rstat |-> [i \in 1..m |-> RowStatic(rec.prob, rec.rows[i])],
   rdyn |-> [i \in 1..m |-> RowDynamic(rec, rec.rows[i])],
   edges |-> E,
   evals |-> [e \in E |-> Coef(rec.prob, rec.rows[e[1]], rec.vars[e[2]])],
   shape |-> <<m, n>>]

\* An assembly that forgets the cached edges
ExtractFromCache_no_edges(cache, rec) ==
  [cache EXCEPT !.edges = {}, !.evals = [e \in {} |-> 0]]

\* The observation assembled from the cache: static columns and edge
\* structure as cached, dynamic columns and edge values of the rows and
\* variables the instance has now
ExtractFromCache(cache, rec) ==
  LET n == Len(rec.vars)
      m == Len(rec.rows) IN
  [cache EXCEPT
     !.vdyn = [j \in 1..Len(cache.vstat) |->
                 IF j <= n THEN VarDynamic(rec, rec.vars[j]) ELSE cache.vdyn[j]],
     !.rdyn = [i \in 1..Len(cache.rstat) |->
                 IF i <= m THEN RowDynamic(rec, rec.rows[i]) ELSE cache.rdyn[i]],
     !.evals = [e \in cache.edges |->
                 IF e[1] <= m /\ e[2] <= n
                   THEN Coef(rec.prob, rec.rows[e[1]], rec.vars[e[2]])
                   ELSE cache.evals[e]]]

\* A before_reset that leaves the flag as it is
ClearCache_skipped(e) == e

\* NodeBipartite::before_reset
ClearCache(e) == [e EXCEPT !.cache_computed = FALSE]

before_reset(h) ==
  /\ Exclusive(h)
  /\ episode < MaxEpisode
  /\ ext' = ClearCache(ext)
  /\ episode' = episode + 1
  /\ hist' = NoObs
  /\ ret' = [op |-> "before_reset", err |-> ""]
  /\ UNCHANGED <<modelVars, aborted>>

\* Whether extract computes the observation from scratch
FromScratch(e) == ~e.use_cache \/ ~e.cache_computed

\* The extractor after a from-scratch observation obs
StoreCache(e, obs) ==
  IF e.use_cache THEN [e EXCEPT !.the_cache = obs, !.cache_computed = TRUE]
  ELSE e

\* NodeBipartite::extract
extract(h, done) ==
  /\ Exclusive(h)
  /\ LET rec == inst[handle[h]]
         obs == IF FromScratch(ext) THEN ExtractFully(rec, episode)
                ELSE ExtractFromCache(ext.the_cache, rec) IN
     IF done
       THEN /\ ret' = [op |-> "extract", err |-> "", h |-> h, done |-> TRUE,
                       obs |-> NoObs, path |-> "none"]
            /\ UNCHANGED <<ext, hist>>
       ELSE IF NotSolving(rec)
       THEN /\ ret' = [op |-> "extract", err |-> "StageViolation", h |-> h,
                       done |-> FALSE, obs |-> NoObs, path |-> "none"]
            /\ UNCHANGED <<ext, hist>>
       ELSE /\ ret' = [op |-> "extract", err |-> "", h |-> h, done |-> FALSE,
                       obs |-> obs,
                       path |-> IF FromScratch(ext) THEN "full" ELSE "cache",
                       prevtick |-> IF hist = NoObs THEN -1 ELSE hist.tick]
            /\ ext' = IF FromScratch(ext) THEN StoreCache(ext, obs)
                      ELSE [ext EXCEPT !.the_cache = obs]
            /\ hist' = [none |-> FALSE, obs |-> obs, prob |-> rec.prob,
                        vars |-> rec.vars, rows |-> rec.rows,
                        tick |-> rec.tick]
  /\ UNCHANGED <<modelVars, aborted, episode>>

(* ------------------------- specifications ----------------------------- *)
\* Seeds the handle model writes
SomeSeeds == {-1, 1}

\* The steps of thread t's Model::operator=
CopySteps(t) ==
  \/ \E h \in Handles : SelfAssign(t, h)
  \/ \E this \in Handles, other \in Handles : CopyAssign(t, this, other)
  \/ \E other \in Handles : CopyConstruct(t, other)
  \/ Acquire(t)
  \/ \E ok \in BOOLEAN : Clone(t, ok)
  \/ Return(t)

\* Threads copying Models that their owners build, load, solve and move
Next ==
  \/ \E h \in Handles : ModelCtor(h)
  \/ \E h \in Handles : MoveOut(h)
  \/ \E h \in Handles, b \in BOOLEAN : ReadProb(h, 1, b)
  \/ \E h \in Handles : solve(h)
  \/ \E t \in Threads : CopySteps(t)

Spec == Init /\ [][Next]_vars

\* The same threads under a fair scheduler: a thread inside copy() goes on,
\* and a thread that finds the mutex free again and again gets it.
FairSpec ==
  /\ Spec
  /\ \A t \in Threads :
       /\ SF_vars(Acquire(t))
       /\ WF_vars(\E ok \in BOOLEAN : Clone(t, ok))
       /\ WF_vars(Return(t))

\* One thread copying Model 1 into Model 2 and into temporaries, in every
\* stage and configuration of Model 1
NextCopy ==
  \/ ModelCtor(1)
  \/ MoveOut(1)
  \/ \E p \in Probs, b \in BOOLEAN : ReadProb(1, p, b)
  \/ solve(1)
  \/ \E v \in SomeSeeds : seed_set(1, v)
  \/ disable_presolve(1)
  \/ disable_cuts(1)
  \/ set_param(1, SeedParam, Val("Int", 1))
  \/ SelfAssign(1, 1)
  \/ CopyAssign(1, 2, 1)
  \/ \E other \in {1, 2} : CopyConstruct(1, other)
  \/ Acquire(1)
  \/ \E ok \in BOOLEAN : Clone(1, ok)
  \/ Return(1)

SpecCopy == Init /\ [][NextCopy]_vars

\* The values and names the parameter interface is called with
SomeVals ==
  {Val("Bool", 0), Val("Int", 2), Val("Int", -2), Val("LongInt", 2),
   Val("Real", 2), Val("Char", 2), Val("String", <<>>), Val("String", <<2>>),
   Val("String", <<2, 3>>)}
SomeNames ==
  {SeedParam, "misc/catchctrlc", "limits/nodes", "limits/time",
   "branching/scorefunc", "visual/vbcfilename", "no/such/param"}

\* One Model's parameters read and written
NextParam ==
  \/ \E n \in SomeNames, v \in SomeVals : set_param(1, n, v)
  \/ \E n \in SomeNames, T \in ParamTypes : get_param(1, n, T)
  \/ \E v \in IntRange : seed_set(1, v)
  \/ seed_get(1)

SpecParam == Init /\ [][NextParam]_vars

\* The environment loads the episode's problem before the episode's first
\* observation
EnvLoad(p) ==
  /\ hist = NoObs
  /\ ~ext.cache_computed
  /\ ReadProb(1, p, TRUE)

InitObs ==
  /\ handle = [h \in Handles |-> h]
  /\ inst = [i \in Inst |-> IF i \in Handles THEN DefaultModel ELSE FreeInst]
  /\ lock = 0
  /\ pc = [t \in Threads |-> "idle"]
  /\ loc = [t \in Threads |-> NoLoc]
  /\ ret = [op |-> "none", err |-> ""]
  /\ aborted = FALSE
  /\ \E cache \in BOOLEAN : ext = NodeBipartite(cache)
  /\ episode = 0
  /\ hist = NoObs

\* One Model solved episode after episode and observed
NextObs ==
  \/ \E p \in Probs : EnvLoad(p)
  \/ solve(1)
  \/ AddRow(1)
  \/ DropRow(1)
  \/ PermuteVars(1)
  \/ Tick(1)
  \/ before_reset(1)
  \/ \E done \in BOOLEAN : extract(1, done)

SpecObs == InitObs /\ [][NextObs]_vars

\* One Model loaded, solved and queried through its views; nothing runs
\* once the process was terminated
NextView ==
  /\ ~aborted
  /\ \/ \E p \in Probs, b \in BOOLEAN : ReadProb(1, p, b)
     \/ ModelCtor(1)
     \/ solve(1)
     \/ AddRow(1)
     \/ DropRow(1)
     \/ PermuteVars(1)
     \/ Tick(1)
     \/ variables(1)
     \/ lp_branch_cands(1)
     \/ lp_columns(1)
     \/ lp_rows(1)

SpecView == Init /\ [][NextView]_vars

SameContent(out, src) ==
  /\ out.params = src.params
  /\ out.prob = src.prob
  /\ out.vars = src.vars

C6_FreshDefaultCopy ==
  (ret.op = "copy" /\ ret.err = "") =>
    /\ ret.null => ret.res = 0
    /\ (~ret.null /\ ret.src.stage = "INIT") =>
         /\ ~ret.locked
         /\ ret.out = DefaultModel

\* C2: lp_columns and lp_rows fail with a stage violation exactly when the
\* Model is not in the solving stage, a call of them leaves the Model as it
\* was, a successful call returns a view as long as the relaxation has
\* columns (rows); variables and lp_branch_cands never fail with a stage
\* violation.
C2_LpViewsGated ==
  /\ [](ret.op \in {"lp_columns", "lp_rows"} =>
         LET rec == inst[handle[ret.h]] IN
         /\ ret.err \in {"", "StageViolation"}
         /\ ret.err = "StageViolation" <=> rec.stage # "SOLVING"
         /\ ret.err = "" =>
              ret.len = IF ret.op = "lp_columns" THEN Len(rec.vars)
                        ELSE Len(rec.rows))
  /\ [](ret.op \in {"variables", "lp_branch_cands"} =>
         ret.err # "StageViolation")
  /\ [][ret'.op \in {"lp_columns", "lp_rows"} => modelVars' = modelVars]_vars

\* lp_rows succeeded during solving and returned a view of two rows.
C2_Witness ==
  /\ ret.op = "lp_rows" /\ ret.err = "" /\ ret.len = 2
  /\ inst[handle[1]].stage = "SOLVING"

\* Whether a value of type tag t is what parameter name n is declared as
Matches(n, t) == ParamDecl[n] = t

StringForChar(want, t) == want = "Char" /\ t = "String"

Magnitude(v) == IF v < 0 THEN -v ELSE v

\* C5: for every int v # 0, the most negative one included, seed(v) stores
\* the magnitude of v (so seed(v) and seed(-v) store the same value), a
\* non-negative number.
C5_SeedMagnitude ==
  (ret.op = "seed" /\ ret.arg # 0) =>
    /\ ret.err = ""
    /\ ret.stored = Magnitude(ret.arg)
    /\ inst[handle[ret.h]].params[SeedParam].v >= 0

\* The observation has the rows, the columns and the orderings of the
\* views of the instance
MatchesViews(obs, rec) ==
  LET n == Len(rec.vars)
      m == Len(rec.rows) IN
  /\ Len(obs.vstat) = n /\ Len(obs.vdyn) = n
  /\ Len(obs.rstat) = m /\ Len(obs.rdyn) = m
  /\ obs.shape = <<m, n>>
  /\ obs.edges \subseteq (1..m) \X (1..n)
  /\ \A j \in 1..n :
       /\ Len(obs.vstat[j]) + Len(obs.vdyn[j]) = 20
       /\ obs.vstat[j] = VarStatic(rec.prob, rec.vars[j])
       /\ obs.vdyn[j][n_dynamic_variable_features] = rec.vars[j]
  /\ \A i \in 1..m :
       /\ Len(obs.rstat[i]) + Len(obs.rdyn[i]) = 5
       /\ obs.rstat[i] = RowStatic(rec.prob, rec.rows[i])

\* C7: every observation extract returns, from scratch or from the cache,
\* has one row of 20 variable features per variable of the variables view,
\* one row of 5 row features per row of the relaxation, edges of shape
\* rows x variables, all in the order of the views at that moment.
C7_ObsMatchesViews ==
  (ret.op = "extract" /\ ~ret.obs.none) =>
    MatchesViews(ret.obs, inst[handle[ret.h]])

\* The structure the previous observation of the episode was taken of is
\* the structure of the instance now
SameStructure(h, rec) ==
  /\ ~h.none
  /\ h.prob = rec.prob /\ h.vars = rec.vars /\ h.rows = rec.rows

\* C8: with caching enabled, an observation that follows another one of
\* the same episode, taken of the same variables, rows and problem, has the
\* static variable columns, the static row columns and the edge
\* coordinates of the one before.
C8_StaticReused ==
  [][(/\ ret'.op = "extract" /\ ~ret'.obs.none
      /\ ext.use_cache
      /\ SameStructure(hist, inst[handle[1]])) =>
       /\ ret'.obs.vstat = hist.obs.vstat
       /\ ret'.obs.rstat = hist.obs.rstat
       /\ ret'.obs.edges = hist.obs.edges]_vars

\* With caching enabled an observation was assembled from the cache after
\* the relaxation was solved again since the observation before it, the
\* structure being that of the cached observation.
C8_Witness ==
  /\ ret.op = "extract" /\ ~ret.obs.none /\ ret.path = "cache"
  /\ ret.prevtick = 0 /\ inst[handle[1]].tick = 1
  /\ ret.obs.edges # {}
  /\ MatchesViews(ret.obs, inst[handle[1]])

\* C9: before_reset leaves cache_computed cleared and use_cache as it was
\* (nothing ever changes use_cache); the first observation after a
\* before_reset is computed from scratch and every observation carries
\* static data computed in its own episode; cache_computed becomes set only
\* by an extract(done = false) with caching enabled that computes from
\* scratch, and is never set with caching disabled.
C9_CachePerEpisode ==
  /\ [](~ext.use_cache => ~ext.cache_computed)
  /\ []((ret.op = "extract" /\ ~ret.obs.none) => ret.obs.epoch = episode)
  /\ [][ext'.use_cache = ext.use_cache]_vars
  /\ [][ret'.op = "before_reset" => ~ext'.cache_computed]_vars
  /\ [][(ret'.op = "extract" /\ ~ret'.obs.none /\ hist.none) =>
          ret'.path = "full"]_vars
  /\ [][(~ext.cache_computed /\ ext'.cache_computed) =>
          /\ ret'.op = "extract" /\ ~ret'.done /\ ret'.path = "full"
          /\ ext.use_cache]_vars

\* before_reset has just cleared the flag of a cache that holds the
\* observation of the episode before.
C9_Witness ==
  /\ ret.op = "before_reset"
  /\ ext.use_cache /\ ~ext.cache_computed /\ ~ext.the_cache.none
  /\ episode = 1

====
